---- MODULE Spec2Model ----
(***************************************************************************)
(* Identity and session management of the healthcare chatbot backend:      *)
(* Backend/auth.py (UserCreate, Database, AuthManager) over the embedded   *)
(* JSON store (users.json, sessions.json).                                 *)
(* Backend/database.py (MongoDB) is the connection manager of the          *)
(* external store, with the indexes it maintains at startup.               *)
(*                                                                         *)
(* Strings that the code inspects (username, email, password) are          *)
(* sequences of characters, so that len() and str.lower() are computed.    *)
(* A datetime is a number of clock ticks; isoformat()/fromisoformat() are  *)
(* the conversion to and from the stored (date, time-of-day) text.         *)
(* The optional display field full_name and the second timestamp           *)
(* updated_at are copied through by the code and never read; they are not  *)
(* part of the records here.                                               *)
(***************************************************************************)
EXTENDS Integers, Sequences, FiniteSets, TLC

VARIABLES
    users_file,     \* content of users.json
    sessions_file,  \* content of sessions.json
    clock,          \* datetime.now()
    last,           \* the latest call made one at a time, with its outcome
    issued,         \* every value the secrets generator has returned so far
    procs,          \* the calls in flight, when calls run in parallel
    mongodb,        \* the MongoDB object: client, db, is_connected
    indexes,        \* the indexes of the users collection on the server
    outcome         \* the latest call on the MongoDB object, with its outcome

vars == <<users_file, sessions_file, clock, last, issued, procs,
          mongodb, indexes, outcome>>
auth_vars == <<users_file, sessions_file, clock, last, issued, procs>>
mongo_vars == <<mongodb, indexes, outcome>>

---------------------------------------------------------------------------
(* Bounds of the model *)

NumUserIds == 2
NumTokens == 2
MaxSkew == 1
TicksPerDay == 1
NumProcs == 2
MaxFailures == 2
MaxDocs == 1

(* Program constants *)

SESSION_EXPIRY_DAYS == 30
HTTP_400_BAD_REQUEST == 400
HTTP_401_UNAUTHORIZED == 401

---------------------------------------------------------------------------
(* Values *)

None == "None"
NoEmail == <<>>
EmptyDict == <<>>

Put(d, k, v) == (k :> v) @@ d
Del(d, k) == [x \in (DOMAIN d) \ {k} |-> d[x]]

alice == <<"a", "l", "i", "c", "e">>
Alice == <<"A", "l", "i", "c", "e">>
bob == <<"b", "o", "b">>
Usernames == {alice, Alice, bob}

a_at_x == <<"a", "@", "x">>
A_at_X == <<"A", "@", "X">>
b_at_x == <<"b", "@", "x">>
Emails == {a_at_x, A_at_X, b_at_x, NoEmail}

secret1 == <<"s", "e", "c", "r", "e", "t", "1">>
wrong == <<"w", "r", "o", "n", "g">>
Passwords == {secret1, wrong}

(* The ranges of secrets.token_hex(16) and secrets.token_urlsafe(32). The   *)
(* code never looks at the store when it draws a value. Spec takes 128 and *)
(* 256 random bits as never repeating: a call draws a value that is not in *)
(* issued.                                                                 *)
generate_id == {"u" \o ToString(i) : i \in 1..NumUserIds}
generate_token == {"t" \o ToString(i) : i \in 1..NumTokens}

SessionLifetime == SESSION_EXPIRY_DAYS * TicksPerDay
(* The instants at which the clock is read: around the moment a session    *)
(* is created and around the moment it expires.                            *)
Times == (0..MaxSkew) \cup (SessionLifetime..(SessionLifetime + MaxSkew))

---------------------------------------------------------------------------
(* str.lower() *)

ToLower == ("A" :> "a") @@ ("L" :> "l") @@ ("X" :> "x") @@ ("B" :> "b")
LowerChar(c) == IF c \in DOMAIN ToLower THEN ToLower[c] ELSE c
lower(s) == [i \in DOMAIN s |-> LowerChar(s[i])]

(* datetime.isoformat(), datetime.fromisoformat(), timedelta(days=...) *)
isoformat(t) == [date |-> t \div TicksPerDay, time |-> t % TicksPerDay]
fromisoformat(s) == s.date * TicksPerDay + s.time
timedelta(days) == days * TicksPerDay

(* hashlib.sha256(password.encode()).hexdigest(): deterministic, unsalted *)
hash_password(password) == <<"sha256">> \o password

---------------------------------------------------------------------------
(* The JSON files of the embedded store. A file is absent, holds a whole   *)
(* JSON document, or is cut short (opened for writing, not yet dumped).    *)

FileAbsent == [kind |-> "absent", data |-> EmptyDict]
FileJson(d) == [kind |-> "json", data |-> d]
FilePartial == [kind |-> "partial", data |-> EmptyDict]

load_users(f) == IF f.kind = "json" THEN f.data ELSE EmptyDict
load_sessions(f) == IF f.kind = "json" THEN f.data ELSE EmptyDict
save_users(users) == FileJson(users)
save_sessions(sessions) == FileJson(sessions)

---------------------------------------------------------------------------
(* Requests and responses *)

HTTPException(status_code, detail) == [status |-> status_code, detail |-> detail]
Ok == [status |-> 200, detail |-> "ok"]
ValidationError == [status |-> 422, detail |-> "validation error"]

Resp(op, username, email, password, token, exc, user_id) ==
    [op |-> op, username |-> username, email |-> email, password |-> password,
     token |-> token, status |-> exc.status, detail |-> exc.detail,
     user_id |-> user_id]

NoCall == Resp("none", <<>>, NoEmail, <<>>, None, Ok, None)

(* class UserCreate: username 3..50 characters, email an EmailStr          *)
(* (required), password at least 6 characters.                             *)
IsEmailStr(email) == email # NoEmail /\ \E i \in DOMAIN email : email[i] = "@"
UserCreate(p) ==
    /\ Len(p.username) >= 3 /\ Len(p.username) <= 50
    /\ IsEmailStr(p.email)
    /\ Len(p.password) >= 6

SignupInputs == [username : Usernames, email : Emails, password : {secret1}]

---------------------------------------------------------------------------
(* AuthManager.create_user *)

(* Variant: the comparison without lower() *)
UsernameExists_CaseSensitive(users, username) ==
    \E id \in DOMAIN users : users[id].username = username

UsernameExists(users, username) ==
    \E id \in DOMAIN users : lower(users[id].username) = lower(username)

(* Variant: the comparison without lower() *)
EmailExists_CaseSensitive(users, email) ==
    \E id \in DOMAIN users : users[id].email = email

EmailExists(users, email) ==
    \E id \in DOMAIN users : lower(users[id].email) = lower(email)

UsernameTaken == HTTPException(HTTP_400_BAD_REQUEST, "Username already exists")
EmailTaken == HTTPException(HTTP_400_BAD_REQUEST, "Email already exists")

(* Variant: the username scan left out *)
create_user_check_EmailOnly(users, p) ==
    IF EmailExists(users, p.email) THEN EmailTaken ELSE Ok

create_user_check(users, p) ==
    IF UsernameExists(users, p.username) THEN UsernameTaken
    ELSE IF EmailExists(users, p.email) THEN EmailTaken
    ELSE Ok

NewUser(user_id, p, now) ==
    [user_id |-> user_id, username |-> p.username, email |-> p.email,
     password_hash |-> hash_password(p.password), created_at |-> isoformat(now)]

(* ids: the values secrets.token_hex(16) may return to this call.           *)
(* Signups and logins are made while the clock is in its first MaxSkew     *)
(* ticks; the later instants of Times are there to watch sessions expire.  *)
create_user(p, ids) ==
    /\ clock <= MaxSkew
    /\ LET users == load_users(users_file)
           exc == IF UserCreate(p) THEN create_user_check(users, p) ELSE ValidationError
       IN  IF exc.status # 200
           THEN /\ last' = Resp("signup", p.username, p.email, p.password, None, exc, None)
                /\ UNCHANGED <<users_file, issued>>
           ELSE \E user_id \in ids :
                /\ users_file' = save_users(Put(users, user_id, NewUser(user_id, p, clock)))
                /\ issued' = issued \cup {user_id}
                /\ last' = Resp("signup", p.username, p.email, p.password, None, Ok, user_id)
    /\ UNCHANGED <<sessions_file, clock, procs>>
    /\ UNCHANGED mongo_vars

---------------------------------------------------------------------------
(* AuthManager.authenticate_user *)

(* Variant: the comparison without lower() *)
FindUser_CaseSensitive(users, username) ==
    {id \in DOMAIN users : users[id].username = username}

FindUser(users, username) ==
    {id \in DOMAIN users : lower(users[id].username) = lower(username)}

(* Variant: a separate error for an unknown username *)
UserNotFound == HTTPException(404, "User not found")

InvalidUser == HTTPException(HTTP_401_UNAUTHORIZED, "Invalid username or password")
InvalidPassword == HTTPException(HTTP_401_UNAUTHORIZED, "Invalid username or password")

(* Variant: the password is not compared *)
authenticate_check_NoPassword(users, username, password) ==
    IF FindUser(users, username) = {}
    THEN {[exc |-> InvalidUser, user_id |-> None]}
    ELSE {[exc |-> Ok, user_id |-> users[id].user_id] : id \in FindUser(users, username)}

(* The user the loop over users.values() stops at, and the outcome of the  *)
(* password comparison for it.                                             *)
authenticate_check(users, username, password) ==
    IF FindUser(users, username) = {}
    THEN {[exc |-> InvalidUser, user_id |-> None]}
    ELSE {IF users[id].password_hash # hash_password(password)
          THEN [exc |-> InvalidPassword, user_id |-> None]
          ELSE [exc |-> Ok, user_id |-> users[id].user_id] : id \in FindUser(users, username)}

(* The code reads the clock twice: for created_at, then for expires_at *)
NewSession(user_id, now1, now2) ==
    [user_id |-> user_id, created_at |-> isoformat(now1),
     expires_at |-> isoformat(now2 + timedelta(SESSION_EXPIRY_DAYS))]

(* tokens: the values secrets.token_urlsafe(32) may return to this call;    *)
(* now2: the clock at its second reading, at most one tick after the first *)
authenticate_user(username, password, tokens, now2) ==
    /\ clock <= MaxSkew
    /\ now2 \in Times /\ now2 >= clock /\ now2 - clock <= 1
    /\ \E r \in authenticate_check(load_users(users_file), username, password) :
          IF r.exc.status # 200
          THEN /\ now2 = clock
               /\ last' = Resp("login", username, NoEmail, password, None, r.exc, None)
               /\ UNCHANGED <<sessions_file, clock, issued>>
          ELSE \E token \in tokens :
               /\ sessions_file' = save_sessions(
                      Put(load_sessions(sessions_file), token,
                          NewSession(r.user_id, clock, now2)))
               /\ clock' = now2
               /\ issued' = issued \cup {token}
               /\ last' = Resp("login", username, NoEmail, password, token, Ok, r.user_id)
    /\ UNCHANGED <<users_file, procs>>
    /\ UNCHANGED mongo_vars

---------------------------------------------------------------------------
(* AuthManager.verify_token and AuthManager.logout *)

(* Variant: the session already counts as expired at expires_at itself *)
Expired_AtExpiry(now, expires_at) == now >= expires_at

Expired(now, expires_at) == now > expires_at

(* Variant: an expired session takes every expired session with it *)
verify_token_result_Sweep(sessions, token, now) ==
    IF token \notin DOMAIN sessions
    THEN [ret |-> None, save |-> FALSE, sessions |-> sessions]
    ELSE IF Expired(now, fromisoformat(sessions[token].expires_at))
    THEN [ret |-> None, save |-> TRUE,
          sessions |-> [t \in {t \in DOMAIN sessions :
                                  ~ Expired(now, fromisoformat(sessions[t].expires_at))}
                          |-> sessions[t]]]
    ELSE [ret |-> sessions[token].user_id, save |-> FALSE, sessions |-> sessions]

(* Variant: a successful verify renews the session (sliding expiry) *)
verify_token_result_Renew(sessions, token, now) ==
    IF token \notin DOMAIN sessions
    THEN [ret |-> None, save |-> FALSE, sessions |-> sessions]
    ELSE IF Expired(now, fromisoformat(sessions[token].expires_at))
    THEN [ret |-> None, save |-> TRUE, sessions |-> Del(sessions, token)]
    ELSE [ret |-> sessions[token].user_id, save |-> TRUE,
          sessions |-> [sessions EXCEPT ![token].expires_at =
                           isoformat(now + timedelta(SESSION_EXPIRY_DAYS))]]

(* What verify_token returns, whether it saves, and the sessions it saves *)
verify_token_result(sessions, token, now) ==
    IF token \notin DOMAIN sessions
    THEN [ret |-> None, save |-> FALSE, sessions |-> sessions]
    ELSE IF Expired(now, fromisoformat(sessions[token].expires_at))
    THEN [ret |-> None, save |-> TRUE, sessions |-> Del(sessions, token)]
    ELSE [ret |-> sessions[token].user_id, save |-> FALSE, sessions |-> sessions]

verify_token(token) ==
    /\ LET r == verify_token_result(load_sessions(sessions_file), token, clock)
       IN  /\ sessions_file' = IF r.save THEN save_sessions(r.sessions) ELSE sessions_file
           /\ last' = Resp("verify", <<>>, NoEmail, <<>>, token, Ok, r.ret)
    /\ UNCHANGED <<users_file, clock, issued, procs>>
    /\ UNCHANGED mongo_vars

(* Variant: the session is not deleted *)
logout_result_Keep(sessions, token) ==
    [exc |-> Ok, save |-> FALSE, sessions |-> sessions]

(* Variant: del sessions[token] without the membership test *)
logout_result_Unguarded(sessions, token) ==
    IF token \in DOMAIN sessions
    THEN [exc |-> Ok, save |-> TRUE, sessions |-> Del(sessions, token)]
    ELSE [exc |-> [status |-> 500, detail |-> "KeyError"], save |-> FALSE,
          sessions |-> sessions]

(* Variant: logout ends every session of the user of the token *)
logout_result_AllOfUser(sessions, token) ==
    IF token \in DOMAIN sessions
    THEN [exc |-> Ok, save |-> TRUE,
          sessions |-> [t \in {t \in DOMAIN sessions :
                                  sessions[t].user_id # sessions[token].user_id}
                          |-> sessions[t]]]
    ELSE [exc |-> Ok, save |-> FALSE, sessions |-> sessions]

(* The outcome of logout, whether it saves, and the sessions it saves *)
logout_result(sessions, token) ==
    IF token \in DOMAIN sessions
    THEN [exc |-> Ok, save |-> TRUE, sessions |-> Del(sessions, token)]
    ELSE [exc |-> Ok, save |-> FALSE, sessions |-> sessions]

logout(token) ==
    /\ LET r == logout_result(load_sessions(sessions_file), token)
       IN  /\ sessions_file' = IF r.save THEN save_sessions(r.sessions) ELSE sessions_file
           /\ last' = Resp("logout", <<>>, NoEmail, <<>>, token, r.exc, None)
    /\ UNCHANGED <<users_file, clock, issued, procs>>
    /\ UNCHANGED mongo_vars

---------------------------------------------------------------------------
(* UserResponse and AuthManager.get_user_by_id *)

(* Variant: the stored dict is handed out as it is *)
UserResponse_Whole(user) == user

(* The public view built from a stored user, field by field *)
UserResponse(user) ==
    [user_id |-> user.user_id, username |-> user.username, email |-> user.email,
     created_at |-> user.created_at]

(* Optional[UserResponse]: no view, or the one view *)
get_user_by_id_result(users, user_id) ==
    IF user_id \in DOMAIN users THEN {UserResponse(users[user_id])} ELSE {}

get_user_by_id(user_id) ==
    /\ LET r == get_user_by_id_result(load_users(users_file), user_id)
       IN  last' = Resp("get_user", <<>>, NoEmail, <<>>, None, Ok,
                        IF r = {} THEN None ELSE user_id)
    /\ UNCHANGED <<users_file, sessions_file, clock, issued, procs>>
    /\ UNCHANGED mongo_vars

(* Time passes between calls *)
Tick ==
    /\ \E t \in Times : t > clock /\ clock' = t
    /\ UNCHANGED <<users_file, sessions_file, last, issued, procs>>
    /\ UNCHANGED mongo_vars

---------------------------------------------------------------------------
(* Backend/database.py: the MongoDB object and the server it talks to.     *)
(* Every call to the server may raise; fails is the set of calls that do.  *)

DATABASE_NAME == "healthcare_db"
MongoClient == "MongoClient"
CollectionNames == {"users", "sessions", "chat_logs"}
MiB == 1024 * 1024

(* MongoDB.__init__ *)
MongoDB == [client |-> None, db |-> None, is_connected |-> FALSE]

(* The calls connect and _create_indexes make, in the order of the code *)
UsersIndexCalls ==
    {"username_collation", "username", "list_indexes", "drop_index",
     "email_partial", "email_sparse", "user_id"}
IndexChain ==
    <<"user_id", "sessions.token", "sessions.user_id", "sessions.expires_at",
      "chat_logs.user_id", "chat_logs.timestamp", "chat_logs.user_id_timestamp">>
ConversationCalls ==
    {"chat_logs.conversation_id", "chat_logs.conversation_id_timestamp"}
Range(s) == {s[i] : i \in DOMAIN s}
ConnectCalls ==
    {"MongoClient", "ping"} \cup UsersIndexCalls \cup Range(IndexChain)
    \cup ConversationCalls
CheckCalls == {"ping", "dbStats", "list_collection_names", "count_documents"}

(* The sets of at most n calls of S *)
RECURSIVE FailureSets(_, _)
FailureSets(S, n) ==
    IF n = 0 THEN {{}}
    ELSE LET F == FailureSets(S, n - 1) IN F \cup {f \cup {c} : f \in F, c \in S}

(* What pymongo raises when the client cannot be made or the ping fails *)
Exceptions == {"ConnectionFailure", "ServerSelectionTimeoutError", "Exception"}

(* An index of the users collection, as list_indexes reports it *)
Index(name, key, unique, partial, sparse) ==
    [name |-> name, key |-> key, unique |-> unique, partial |-> partial,
     sparse |-> sparse]
email_plain == Index("email_1", <<"email">>, TRUE, FALSE, FALSE)
email_partial == Index("email_1", <<"email">>, TRUE, TRUE, FALSE)
email_sparse == Index("email_1", <<"email">>, TRUE, FALSE, TRUE)
email_lookup == Index("email_1", <<"email">>, FALSE, FALSE, FALSE)
email_created == Index("email_1_created_at_1", <<"email", "created_at">>,
                       FALSE, FALSE, FALSE)

(* The indexes an earlier deployment may have left on users *)
PreExisting ==
    {<<>>, <<email_plain>>, <<email_partial>>, <<email_sparse>>, <<email_lookup>>,
     <<email_created>>, <<email_created, email_plain>>}

(* The server creates the index, leaves an identical one as it is, and     *)
(* refuses when an index of that name or key exists with other options.    *)
create_index_ok(idx, index) ==
    \A i \in DOMAIN idx :
        (idx[i].name = index.name \/ idx[i].key = index.key) => idx[i] = index
create_index(idx, index) ==
    IF \E i \in DOMAIN idx : idx[i] = index THEN idx ELSE Append(idx, index)
drop_index(idx, i) == SubSeq(idx, 1, i - 1) \o SubSeq(idx, i + 1, Len(idx))

(* The loop over existing_indexes: the first index whose key has email *)
email_index(idx) ==
    {i \in DOMAIN idx : /\ "email" \in Range(idx[i].key)
                        /\ \A j \in 1..(i - 1) : "email" \notin Range(idx[j].key)}

(* Inspection of the existing email index, and its drop *)
inspect_email_index(idx, fails) ==
    IF "list_indexes" \in fails \/ email_index(idx) = {}
    THEN [indexes |-> idx, attempted |-> {"list_indexes"}]
    ELSE LET i == CHOOSE i \in email_index(idx) : TRUE
         IN  IF ~ idx[i].partial /\ ~ idx[i].sparse
             THEN [indexes |-> IF "drop_index" \in fails THEN idx
                               ELSE drop_index(idx, i),
                   attempted |-> {"list_indexes", "drop_index"}]
             ELSE [indexes |-> idx, attempted |-> {"list_indexes"}]

(* The partial unique index on email, else the sparse unique one *)
create_email_index(idx, fails) ==
    IF "email_partial" \notin fails /\ create_index_ok(idx, email_partial)
    THEN [indexes |-> create_index(idx, email_partial),
          attempted |-> {"email_partial"}]
    ELSE IF "email_sparse" \notin fails /\ create_index_ok(idx, email_sparse)
    THEN [indexes |-> create_index(idx, email_sparse),
          attempted |-> {"email_partial", "email_sparse"}]
    ELSE [indexes |-> idx, attempted |-> {"email_partial", "email_sparse"}]

(* The username index: with the collation, else without *)
create_username_index(fails) ==
    IF "username_collation" \in fails
    THEN {"username_collation", "username"} ELSE {"username_collation"}

(* The create_index calls from user_id on, which no try of their own       *)
(* guards: the first that raises ends the list.                            *)
chain_failures(fails) == {i \in DOMAIN IndexChain : IndexChain[i] \in fails}
chain_last(fails) ==
    IF chain_failures(fails) = {} THEN Len(IndexChain)
    ELSE CHOOSE i \in chain_failures(fails) : \A j \in chain_failures(fails) : i <= j
create_index_chain(fails) ==
    [attempted |-> {IndexChain[i] : i \in 1..chain_last(fails)},
     raised |-> IF chain_failures(fails) = {} THEN None ELSE "Exception"]

(* The conversation indexes, in a try of their own *)
create_conversation_indexes(fails) ==
    IF "chat_logs.conversation_id" \in fails
    THEN {"chat_logs.conversation_id"} ELSE ConversationCalls

(* The body of the outer try of _create_indexes *)
create_indexes_body(idx, fails) ==
    LET inspected == inspect_email_index(idx, fails)
        email == create_email_index(inspected.indexes, fails)
        chain == create_index_chain(fails)
    IN  [indexes |-> email.indexes,
         attempted |-> create_username_index(fails) \cup inspected.attempted
                       \cup email.attempted \cup chain.attempted
                       \cup (IF chain.raised = None
                             THEN create_conversation_indexes(fails) ELSE {}),
         raised |-> chain.raised]

(* Variant: without the outer except *)
create_indexes_NoCatch(idx, fails) == create_indexes_body(idx, fails)

(* MongoDB._create_indexes: the outer except logs whatever was raised *)
create_indexes(idx, fails) ==
    [create_indexes_body(idx, fails) EXCEPT !.raised = None]

(* Variant: only the two pymongo errors are caught *)
connect_except_Narrow(exc, is_connected) ==
    IF exc = "Exception"
    THEN [is_connected |-> is_connected, value |-> FALSE, raised |-> exc]
    ELSE [is_connected |-> FALSE, value |-> FALSE, raised |-> None]

(* The three except clauses of connect *)
connect_except(exc, is_connected) ==
    CASE exc = "ConnectionFailure" ->
            [is_connected |-> FALSE, value |-> FALSE, raised |-> None]
      [] exc = "ServerSelectionTimeoutError" ->
            [is_connected |-> FALSE, value |-> FALSE, raised |-> None]
      [] OTHER ->
            [is_connected |-> FALSE, value |-> FALSE, raised |-> None]

(* MongoDB.connect: the object and the indexes it leaves, what it returns  *)
(* or raises, and the calls it made.                                       *)
connect_result(m, idx, fails, exc) ==
    IF "MongoClient" \in fails
    THEN LET h == connect_except(exc, m.is_connected)
         IN  [mongodb |-> [m EXCEPT !.is_connected = h.is_connected],
              indexes |-> idx, value |-> h.value, raised |-> h.raised,
              attempted |-> {"MongoClient"}]
    ELSE IF "ping" \in fails
    THEN LET h == connect_except(exc, m.is_connected)
         IN  [mongodb |-> [m EXCEPT !.client = MongoClient,
                                    !.is_connected = h.is_connected],
              indexes |-> idx, value |-> h.value, raised |-> h.raised,
              attempted |-> {"MongoClient", "ping"}]
    ELSE LET ci == create_indexes(idx, fails)
             up == [client |-> MongoClient, db |-> DATABASE_NAME,
                    is_connected |-> TRUE]
         IN  IF ci.raised # None
             THEN LET h == connect_except(ci.raised, TRUE)
                  IN  [mongodb |-> [up EXCEPT !.is_connected = h.is_connected],
                       indexes |-> ci.indexes, value |-> h.value,
                       raised |-> h.raised,
                       attempted |-> {"MongoClient", "ping"} \cup ci.attempted]
             ELSE [mongodb |-> up, indexes |-> ci.indexes, value |-> TRUE,
                   raised |-> None,
                   attempted |-> {"MongoClient", "ping"} \cup ci.attempted]

(* A call on the MongoDB object: the calls it made to the server, the ones *)
(* of them that raised, what it returned and what it raised.               *)
Outcome(call, attempted, failed, value, raised) ==
    [call |-> call, attempted |-> attempted, failed |-> failed, value |-> value,
     raised |-> raised]
NoOutcome == Outcome("none", {}, {}, None, None)

connect(fails, exc) ==
    /\ LET r == connect_result(mongodb, indexes, fails, exc)
       IN  /\ mongodb' = r.mongodb
           /\ indexes' = r.indexes
           /\ outcome' = Outcome("connect", r.attempted, r.attempted \cap fails,
                                 r.value, r.raised)
    /\ UNCHANGED auth_vars

(* MongoDB.disconnect *)
disconnect_result(m) ==
    IF m.client # None THEN [m EXCEPT !.is_connected = FALSE] ELSE m

disconnect ==
    /\ mongodb' = disconnect_result(mongodb)
    /\ outcome' = Outcome("disconnect", {}, {}, None, None)
    /\ UNCHANGED <<indexes, auth_vars>>

(* Variant: the test of is_connected is left out *)
get_collection_result_DbOnly(m, collection_name) ==
    IF m.db = None
    THEN [value |-> None, raised |-> "RuntimeError"]
    ELSE [value |-> <<m.db, collection_name>>, raised |-> None]

(* MongoDB.get_collection: the handle db[collection_name], or RuntimeError *)
get_collection_result(m, collection_name) ==
    IF ~ m.is_connected \/ m.db = None
    THEN [value |-> None, raised |-> "RuntimeError"]
    ELSE [value |-> <<m.db, collection_name>>, raised |-> None]

(* get_users_collection, get_sessions_collection, get_chat_logs_collection *)
get_collection(collection_name) ==
    /\ LET r == get_collection_result(mongodb, collection_name)
       IN  outcome' = Outcome("get_collection", {}, {}, r.value, r.raised)
    /\ UNCHANGED <<mongodb, indexes, auth_vars>>

(* Variant: a failed ping marks the object as not connected *)
check_connection_result_Reset(m, fails, collections, count, dataSize) ==
    IF ~ m.is_connected
    THEN [mongodb |-> m, raised |-> None,
          value |-> [connected |-> FALSE, message |-> "Not connected to MongoDB",
                     database |-> None]]
    ELSE IF fails \cap CheckCalls # {}
    THEN [mongodb |-> [m EXCEPT !.is_connected = FALSE], raised |-> None,
          value |-> [connected |-> FALSE, message |-> "Connection check failed",
                     database |-> DATABASE_NAME]]
    ELSE [mongodb |-> m, raised |-> None,
          value |-> [connected |-> TRUE,
                     message |-> "Successfully connected to MongoDB Atlas",
                     database |-> DATABASE_NAME,
                     collections |-> collections,
                     document_counts |->
                         [c \in CollectionNames |->
                             IF c \in collections THEN count ELSE 0],
                     database_size |-> dataSize \div MiB]]

(* MongoDB.check_connection: the dict it returns *)
check_connection_result(m, fails, collections, count, dataSize) ==
    IF ~ m.is_connected
    THEN [mongodb |-> m, raised |-> None,
          value |-> [connected |-> FALSE, message |-> "Not connected to MongoDB",
                     database |-> None]]
    ELSE IF fails \cap CheckCalls # {}
    THEN [mongodb |-> m, raised |-> None,
          value |-> [connected |-> FALSE, message |-> "Connection check failed",
                     database |-> DATABASE_NAME]]
    ELSE [mongodb |-> m, raised |-> None,
          value |-> [connected |-> TRUE,
                     message |-> "Successfully connected to MongoDB Atlas",
                     database |-> DATABASE_NAME,
                     collections |-> collections,
                     document_counts |->
                         [c \in CollectionNames |->
                             IF c \in collections THEN count ELSE 0],
                     database_size |-> dataSize \div MiB]]

check_connection(fails, collections, count, dataSize) ==
    /\ LET r == check_connection_result(mongodb, fails, collections, count, dataSize)
       IN  /\ mongodb' = r.mongodb
           /\ outcome' = Outcome("check_connection",
                                 IF mongodb.is_connected THEN CheckCalls ELSE {},
                                 IF mongodb.is_connected THEN fails ELSE {},
                                 r.value, r.raised)
    /\ UNCHANGED <<indexes, auth_vars>>

---------------------------------------------------------------------------
(* Calls executed one at a time *)

Idle == [pc |-> "idle", p |-> [username |-> <<>>, email |-> NoEmail, password |-> <<>>],
         users |-> EmptyDict, exc |-> Ok, user_id |-> None]

Init ==
    /\ users_file = FileAbsent
    /\ sessions_file = FileAbsent
    /\ clock = 0
    /\ last = NoCall
    /\ issued = {}
    /\ procs = [self \in 1..NumProcs |-> Idle]
    /\ mongodb = MongoDB
    /\ indexes = <<>>
    /\ outcome = NoOutcome

Next ==
    \/ \E p \in SignupInputs : create_user(p, generate_id \ issued)
    \/ \E username \in Usernames, password \in Passwords, now2 \in Times :
            authenticate_user(username, password, generate_token \ issued, now2)
    \/ \E token \in generate_token : verify_token(token)
    \/ \E token \in generate_token : logout(token)
    \/ \E user_id \in generate_id : get_user_by_id(user_id)
    \/ Tick

Spec == Init /\ [][Next]_vars

(* The same calls, with secrets.token_hex and secrets.token_urlsafe free   *)
(* to return any value of their range, one they returned before included   *)
NextAnyValue ==
    \/ \E p \in SignupInputs : create_user(p, generate_id)
    \/ \E username \in Usernames, password \in Passwords, now2 \in Times :
          authenticate_user(username, password, generate_token, now2)
    \/ \E token \in generate_token : verify_token(token)
    \/ \E token \in generate_token : logout(token)
    \/ \E user_id \in generate_id : get_user_by_id(user_id)
    \/ Tick

SpecAnyValue == Init /\ [][NextAnyValue]_vars

---------------------------------------------------------------------------
(* Signups executed in parallel. Each call is create_user on a validated   *)
(* payload, in the steps at which it touches users.json: load_users reads  *)
(* the file; the scan runs on the loaded copy and, when it passes,         *)
(* save_users opens the file for writing, which empties it; json.dump then *)
(* writes the loaded copy plus the new user.                               *)

Procs == 1..NumProcs

cu_load(self, p) ==
    /\ procs[self].pc = "idle"
    /\ UserCreate(p)
    /\ procs' = [procs EXCEPT ![self] =
                    [pc |-> "scan", p |-> p, users |-> load_users(users_file),
                     exc |-> Ok, user_id |-> None]]
    /\ UNCHANGED <<users_file, sessions_file, clock, last, issued>>
    /\ UNCHANGED mongo_vars

cu_scan(self, user_id) ==
    /\ procs[self].pc = "scan"
    /\ LET me == procs[self]
           exc == create_user_check(me.users, me.p)
       IN  IF exc.status # 200
           THEN /\ procs' = [procs EXCEPT ![self].pc = "done", ![self].exc = exc]
                /\ UNCHANGED <<users_file, issued>>
           ELSE /\ procs' = [procs EXCEPT
                               ![self].pc = "dump",
                               ![self].user_id = user_id,
                               ![self].users =
                                   Put(me.users, user_id, NewUser(user_id, me.p, clock))]
                /\ issued' = issued \cup {user_id}
                /\ users_file' = FilePartial
    /\ UNCHANGED <<sessions_file, clock, last>>
    /\ UNCHANGED mongo_vars

(* A dump into a file that another call has filled since this call opened  *)
(* it overwrites that content from the start: the result is this call's    *)
(* document, or this call's document followed by the rest of the other     *)
(* one, which json.load rejects.                                           *)
cu_dump(self) ==
    /\ procs[self].pc = "dump"
    /\ \/ users_file' = save_users(procs[self].users)
       \/ users_file.kind = "json" /\ users_file' = FilePartial
    /\ procs' = [procs EXCEPT ![self].pc = "done", ![self].exc = Ok]
    /\ UNCHANGED <<sessions_file, clock, last, issued>>
    /\ UNCHANGED mongo_vars

(* The worker that has returned the response takes the next request *)
cu_return(self) ==
    /\ procs[self].pc = "done"
    /\ procs' = [procs EXCEPT ![self] = Idle]
    /\ UNCHANGED <<users_file, sessions_file, clock, last, issued>>
    /\ UNCHANGED mongo_vars

NextParallel ==
    \/ \E self \in Procs, p \in SignupInputs : cu_load(self, p)
    \/ \E self \in Procs, user_id \in generate_id \ issued : cu_scan(self, user_id)
    \/ \E self \in Procs : cu_dump(self)
    \/ \E self \in Procs : cu_return(self)

SpecParallel == Init /\ [][NextParallel]_vars

---------------------------------------------------------------------------
(* Logins, verifies and logouts executed in parallel, in the steps at      *)
(* which they touch sessions.json: load_sessions reads the file and the    *)
(* call changes its loaded copy; save_sessions opens the file for writing, *)
(* which empties it; json.dump then writes the copy. A call that does not  *)
(* save is done after the load. The calls start in the state one signup    *)
(* leaves behind, and logout and verify are called with tokens that logins *)
(* have returned.                                                          *)

the_user == [username |-> alice, email |-> a_at_x, password |-> secret1]

InitSessions ==
    /\ users_file = save_users(Put(EmptyDict, "u1", NewUser("u1", the_user, 0)))
    /\ sessions_file = FileAbsent
    /\ clock = 0
    /\ last = Resp("signup", the_user.username, the_user.email, the_user.password,
                   None, Ok, "u1")
    /\ issued = {"u1"}
    /\ procs = [self \in 1..NumProcs |-> Idle]
    /\ mongodb = MongoDB
    /\ indexes = <<>>
    /\ outcome = NoOutcome

SessionCall(pc, op, token, sessions, ret) ==
    [pc |-> pc, op |-> op, token |-> token, sessions |-> sessions, ret |-> ret]

(* authenticate_user up to the session put into the loaded copy *)
au_load(self, username, password, tokens) ==
    /\ procs[self].pc = "idle"
    /\ clock <= MaxSkew
    /\ \E r \in authenticate_check(load_users(users_file), username, password) :
          IF r.exc.status # 200
          THEN /\ procs' = [procs EXCEPT ![self] =
                              SessionCall("s_done", "login", None, EmptyDict, None)]
               /\ UNCHANGED issued
          ELSE \E token \in tokens :
               /\ procs' = [procs EXCEPT ![self] =
                              SessionCall("s_open", "login", token,
                                  Put(load_sessions(sessions_file), token,
                                      NewSession(r.user_id, clock, clock)),
                                  r.user_id)]
               /\ issued' = issued \cup {token}
    /\ UNCHANGED <<users_file, sessions_file, clock, last>>
    /\ UNCHANGED mongo_vars

(* verify_token up to the decision: return, or evict and save *)
vt_load(self, token) ==
    /\ procs[self].pc = "idle"
    /\ LET r == verify_token_result(load_sessions(sessions_file), token, clock)
       IN  procs' = [procs EXCEPT ![self] =
                        SessionCall(IF r.save THEN "s_open" ELSE "s_done",
                                    "verify", token, r.sessions, r.ret)]
    /\ UNCHANGED <<users_file, sessions_file, clock, last, issued>>
    /\ UNCHANGED mongo_vars

(* logout up to the decision: nothing to do, or delete and save *)
lo_load(self, token) ==
    /\ procs[self].pc = "idle"
    /\ LET r == logout_result(load_sessions(sessions_file), token)
       IN  procs' = [procs EXCEPT ![self] =
                        SessionCall(IF r.save THEN "s_open" ELSE "s_done",
                                    "logout", token, r.sessions, None)]
    /\ UNCHANGED <<users_file, sessions_file, clock, last, issued>>
    /\ UNCHANGED mongo_vars

(* save_sessions: open(SESSIONS_DB_FILE, 'w') *)
ss_open(self) ==
    /\ procs[self].pc = "s_open"
    /\ sessions_file' = FilePartial
    /\ procs' = [procs EXCEPT ![self].pc = "s_dump"]
    /\ UNCHANGED <<users_file, clock, last, issued>>
    /\ UNCHANGED mongo_vars

(* save_sessions: json.dump, into a file another call may have filled since *)
ss_dump(self) ==
    /\ procs[self].pc = "s_dump"
    /\ \/ sessions_file' = save_sessions(procs[self].sessions)
       \/ sessions_file.kind = "json" /\ sessions_file' = FilePartial
    /\ procs' = [procs EXCEPT ![self].pc = "s_done"]
    /\ UNCHANGED <<users_file, clock, last, issued>>
    /\ UNCHANGED mongo_vars

(* The worker that has returned the response takes the next request; the   *)
(* worker of a logout is not used again, so that the logouts that have     *)
(* completed stay on record.                                               *)
ss_return(self) ==
    /\ procs[self].pc = "s_done"
    /\ procs[self].op # "logout"
    /\ procs' = [procs EXCEPT ![self] = Idle]
    /\ UNCHANGED <<users_file, sessions_file, clock, last, issued>>
    /\ UNCHANGED mongo_vars

(* The tokens clients hold: the ones logins have returned *)
ReturnedTokens ==
    (generate_token \cap issued)
    \ {procs[o].token : o \in {o \in Procs : procs[o].pc \in {"s_open", "s_dump"}}}

NextSessions ==
    \/ \E self \in Procs, username \in Usernames, password \in Passwords :
          au_load(self, username, password, generate_token \ issued)
    \/ \E self \in Procs, token \in ReturnedTokens : vt_load(self, token)
    \/ \E self \in Procs, token \in ReturnedTokens : lo_load(self, token)
    \/ \E self \in Procs : ss_open(self)
    \/ \E self \in Procs : ss_dump(self)
    \/ \E self \in Procs : ss_return(self)
    \/ Tick

SpecSessions == InitSessions /\ [][NextSessions]_vars

---------------------------------------------------------------------------
(* The calls on the MongoDB object, one at a time, on a server on which an *)
(* earlier deployment may have left indexes.                               *)

InitMongo ==
    /\ users_file = FileAbsent
    /\ sessions_file = FileAbsent
    /\ clock = 0
    /\ last = NoCall
    /\ issued = {}
    /\ procs = [self \in 1..NumProcs |-> Idle]
    /\ mongodb = MongoDB
    /\ indexes \in PreExisting
    /\ outcome = NoOutcome

NextMongo ==
    \/ \E fails \in FailureSets(ConnectCalls, MaxFailures), exc \in Exceptions :
          connect(fails, exc)
    \/ disconnect
    \/ \E collection_name \in CollectionNames : get_collection(collection_name)
    \/ \E fails \in FailureSets(CheckCalls, MaxFailures),
          collections \in SUBSET CollectionNames, dataSize \in {0, MiB} :
          check_connection(fails, collections, MaxDocs, dataSize)

SpecMongo == InitMongo /\ [][NextMongo]_vars

---------------------------------------------------------------------------
(* Properties *)

StoredUsers == load_users(users_file)
StoredSessions == load_sessions(sessions_file)

SameNameStored(username) ==
    \E id \in DOMAIN StoredUsers : lower(StoredUsers[id].username) = lower(username)
SameEmailStored(email) ==
    \E id \in DOMAIN StoredUsers : lower(StoredUsers[id].email) = lower(email)

(* The step is a call of the operation with the arguments last' records *)
LastPayload == [username |-> last.username, email |-> last.email,
                password |-> last.password]
SignupCall == last'.op = "signup" /\ create_user(LastPayload', generate_id)
LoginCall ==
    /\ last'.op = "login"
    /\ \E now2 \in Times :
          authenticate_user(last'.username, last'.password, generate_token, now2)
VerifyCall == last'.op = "verify" /\ verify_token(last'.token)
LogoutCall == last'.op = "logout" /\ logout(last'.token)

AllDone == \A self \in Procs : procs[self].pc = "done"
Succeeded == {self \in Procs : procs[self].exc.status = 200}
Rejected == {self \in Procs : procs[self].exc = UsernameTaken}

(* C1: when N >= 2 signups with the identical username run in parallel on  *)
(* the embedded store, in every interleaving exactly one succeeds, the     *)
(* other N-1 fail with "Username already exists", and users.json ends with *)
(* exactly one user of that username.                                      *)
C1_ExactlyOneSignupWins ==
    (AllDone /\ \A a, b \in Procs : procs[a].p.username = procs[b].p.username)
    => /\ Cardinality(Succeeded) = 1
       /\ Cardinality(Rejected) = NumProcs - 1
       /\ Cardinality({id \in DOMAIN StoredUsers :
                          StoredUsers[id].username = procs[1].p.username}) = 1

(* C2 (I1): in every state reached by signup, login, verify and logout     *)
(* calls made one at a time, no two distinct user records have usernames   *)
(* that are equal ignoring letter case.                                    *)
C2_UsernamesUnique ==
    \A i, j \in DOMAIN StoredUsers :
        i # j => lower(StoredUsers[i].username) # lower(StoredUsers[j].username)

C2_Witness ==
    /\ Cardinality(DOMAIN StoredUsers) = 2
    /\ last.op = "signup" /\ last.detail = "Username already exists"

(* C3: a signup whose username equals a stored username ignoring letter    *)
(* case fails with 400 "Username already exists" and leaves users.json as  *)
(* it was.                                                                 *)
C3_DuplicateUsernameRejected ==
    [][(SignupCall /\ UserCreate(LastPayload') /\ SameNameStored(last'.username))
          => /\ last'.status = 400
             /\ last'.detail = "Username already exists"
             /\ users_file' = users_file]_vars

C3_Witness ==
    /\ last.op = "signup" /\ last.status = 400
    /\ last.detail = "Username already exists"
    /\ \E id \in DOMAIN StoredUsers :
          /\ StoredUsers[id].username # last.username
          /\ lower(StoredUsers[id].username) = lower(last.username)

EmailsUnique ==
    \A i, j \in DOMAIN StoredUsers :
        (i # j /\ StoredUsers[i].email # NoEmail /\ StoredUsers[j].email # NoEmail)
        => lower(StoredUsers[i].email) # lower(StoredUsers[j].email)

(* C4 (I2): a signup with a fresh username whose email equals a stored     *)
(* email ignoring letter case fails with 400 "Email already exists" and    *)
(* leaves users.json as it was; no two stored users share an email         *)
(* ignoring letter case.                                                   *)
C4_DuplicateEmailRejected ==
    [][/\ (/\ SignupCall /\ UserCreate(LastPayload')
             /\ ~SameNameStored(last'.username) /\ SameEmailStored(last'.email))
            => /\ last'.status = 400
               /\ last'.detail = "Email already exists"
               /\ users_file' = users_file
       /\ EmailsUnique']_vars

C4_Witness ==
    /\ last.op = "signup" /\ last.status = 400
    /\ last.detail = "Email already exists"
    /\ \E id \in DOMAIN StoredUsers :
          /\ StoredUsers[id].email # last.email
          /\ lower(StoredUsers[id].email) = lower(last.email)

(* C5: a signup with no email at all, a fresh username and an acceptable   *)
(* username and password succeeds.                                         *)
C5_AbsentEmailAccepted ==
    [][(/\ SignupCall /\ last'.email = NoEmail
        /\ Len(last'.username) >= 3 /\ Len(last'.password) >= 6
        /\ ~SameNameStored(last'.username))
          => last'.status = 200]_vars

LoginFailures ==
    UNION {{r \in authenticate_check(StoredUsers, u, p) : r.exc.status # 200} :
              u \in Usernames, p \in Passwords}

(* C6: a login with a stored username and a wrong password and a login     *)
(* with a username that matches no user end in the identical error: the    *)
(* same status 401 and the same detail, for every store and every input.   *)
C6_LoginFailuresIdentical ==
    /\ \A r1, r2 \in LoginFailures : r1 = r2
    /\ (last.op = "login" /\ last.status # 200)
       => /\ last.status = 401
          /\ last.detail = "Invalid username or password"
          /\ last.token = None /\ last.user_id = None

C6_Witness ==
    /\ last.op = "login" /\ last.status = 401
    /\ FindUser(StoredUsers, last.username) # {}
    /\ \E u \in Usernames : FindUser(StoredUsers, u) = {}

(* C7 (I5): verify(token) returns a user id if and only if a session with  *)
(* that token is stored and now <= expires_at; the id it returns is the    *)
(* one stored in that session; otherwise it returns nothing.               *)
C7_VerifyIffStoredAndNotExpired ==
    [][VerifyCall
          => /\ (last'.user_id # None)
                <=> (/\ last'.token \in DOMAIN StoredSessions
                     /\ clock <= fromisoformat(StoredSessions[last'.token].expires_at))
             /\ (last'.user_id # None)
                => last'.user_id = StoredSessions[last'.token].user_id]_vars

C7_Witness ==
    /\ last.op = "verify" /\ last.user_id # None
    /\ last.token \in DOMAIN StoredSessions
    /\ clock = fromisoformat(StoredSessions[last.token].expires_at)

(* C8: once logout(token) has returned, the token is not in sessions.json, *)
(* no later call puts it back, and every later verify(token) returns       *)
(* nothing.                                                                *)
C8_LoggedOutStaysOut ==
    [][/\ LogoutCall => last'.token \notin DOMAIN StoredSessions'
       /\ \A token \in issued :
            token \notin DOMAIN StoredSessions => token \notin DOMAIN StoredSessions'
       /\ (VerifyCall /\ last'.token \notin DOMAIN StoredSessions)
            => last'.user_id = None]_vars

C8_Witness ==
    /\ last.op = "verify" /\ last.user_id = None
    /\ last.token \in issued
    /\ clock <= MaxSkew
    /\ StoredSessions # EmptyDict

(* C9: logout never fails; logout of a token that is not stored leaves the *)
(* sessions as they were, so a second logout changes nothing; after logout *)
(* the token is not stored and every other session is as before.           *)
C9_LogoutIdempotent ==
    [][LogoutCall
          => /\ last'.status = 200
             /\ last'.token \notin DOMAIN StoredSessions => sessions_file' = sessions_file
             /\ StoredSessions' = Del(StoredSessions, last'.token)
             /\ logout_result(StoredSessions', last'.token).sessions = StoredSessions'
             /\ logout_result(StoredSessions', last'.token).exc = Ok]_vars

C9_Witness ==
    /\ last.op = "logout" /\ last.status = 200
    /\ last.token \in issued
    /\ last.token \notin DOMAIN StoredSessions
    /\ clock <= MaxSkew

(* C10: every stored session has expires_at = created_at + 30 days.        *)
C10_ExpiryIsCreationPlusLifetime ==
    \A token \in DOMAIN StoredSessions :
        fromisoformat(StoredSessions[token].expires_at)
            = fromisoformat(StoredSessions[token].created_at)
              + timedelta(SESSION_EXPIRY_DAYS)

(* C11: after a successful signup, a login with any letter-case variant of *)
(* the username and the same password succeeds, returns the user id the    *)
(* signup returned, and stores a session with that user id. A successful   *)
(* signup stores the user under the id it returns.                         *)
C11_LoginAnyCaseSameUser ==
    [][/\ (SignupCall /\ last'.status = 200)
          => /\ last'.user_id \in DOMAIN StoredUsers'
             /\ StoredUsers'[last'.user_id].user_id = last'.user_id
             /\ StoredUsers'[last'.user_id].username = last'.username
       /\ \A id \in DOMAIN StoredUsers :
            (/\ LoginCall
             /\ lower(StoredUsers[id].username) = lower(last'.username)
             /\ StoredUsers[id].password_hash = hash_password(last'.password))
            => /\ last'.status = 200
               /\ last'.user_id = id
               /\ last'.token \in DOMAIN StoredSessions'
               /\ StoredSessions'[last'.token].user_id = id]_vars

C11_Witness ==
    /\ last.op = "login" /\ last.status = 200
    /\ last.user_id \in DOMAIN StoredUsers
    /\ StoredUsers[last.user_id].username # last.username
    /\ last.token \in DOMAIN StoredSessions
    /\ StoredSessions[last.token].user_id = last.user_id

(* The views the calls hand out in this state: the one of the latest       *)
(* successful signup or login, and the ones of get_user_by_id.             *)
ReturnedViews ==
    (IF last.op \in {"signup", "login"} /\ last.status = 200
     THEN {UserResponse(StoredUsers[last.user_id])} ELSE {})
    \cup UNION {get_user_by_id_result(StoredUsers, id) : id \in generate_id}

(* C12: the user view returned by signup, login and get_user_by_id has     *)
(* only the fields user_id, username, email, full_name and created_at:     *)
(* never the password hash, never the password.                            *)
C12_ViewHidesPasswordHash ==
    \A v \in ReturnedViews :
        /\ DOMAIN v \subseteq {"user_id", "username", "email", "full_name", "created_at"}
        /\ "password_hash" \notin DOMAIN v
        /\ "password" \notin DOMAIN v

C12_Witness ==
    /\ last.op = "get_user" /\ last.user_id # None
    /\ Cardinality(ReturnedViews) = 2

(* C13 (I3): every successful signup stores the new user under a user id   *)
(* that no stored user has, whatever value the id generator returns, and   *)
(* leaves every stored user in place and unchanged.                        *)
C13_SignupUsesUnusedId ==
    [][(SignupCall /\ last'.status = 200)
       => /\ last'.user_id \notin DOMAIN StoredUsers
          /\ \A id \in DOMAIN StoredUsers :
                /\ id \in DOMAIN StoredUsers'
                /\ StoredUsers'[id] = StoredUsers[id]]_vars

(* C14 (I4): every successful login stores its session under a token that  *)
(* no stored session uses, whatever value the token generator returns, and *)
(* leaves every stored session in place and unchanged.                     *)
C14_LoginUsesUnusedToken ==
    [][(LoginCall /\ last'.status = 200)
       => /\ last'.token \notin DOMAIN StoredSessions
          /\ \A token \in DOMAIN StoredSessions :
                /\ token \in DOMAIN StoredSessions'
                /\ StoredSessions'[token] = StoredSessions[token]]_vars

(* C15: once a signup has returned successfully, the record of its user is *)
(* in the users collection, unchanged, in every later state, whatever      *)
(* other signups do in parallel and whatever a read of the file yields.    *)
(* Stated for the states in which users.json holds a complete document.    *)
C15_UsersNeverLost ==
    \A self \in Procs :
        (/\ procs[self].pc = "done" /\ procs[self].exc.status = 200
         /\ users_file.kind = "json")
        => /\ procs[self].user_id \in DOMAIN StoredUsers
           /\ StoredUsers[procs[self].user_id]
                 = procs[self].users[procs[self].user_id]

(* The step is the load_users of a call of process self *)
LoadStep(self) == procs[self].pc = "idle" /\ procs'[self].pc = "scan"

(* The complete collections a load may yield: the content of the file, or, *)
(* while a save of process w has the file open, the collection w found in  *)
(* it (old) and the one w is writing (new).                                *)
CompleteCollections ==
    IF users_file.kind = "partial"
    THEN UNION {{Del(procs[w].users, procs[w].user_id), procs[w].users} :
                    w \in {w \in Procs : procs[w].pc = "dump"}}
    ELSE {load_users(users_file)}

(* C16: a save is atomic at the file level: a load that runs while a save  *)
(* is under way yields the complete old or the complete new collection,    *)
(* never an empty or cut-short one.                                        *)
C16_LoadSeesCompleteCollection ==
    [][\A self \in Procs :
          LoadStep(self) => procs'[self].users \in CompleteCollections]_vars

(* The step is the load_sessions of a verify_token call of process self *)
VerifyStart(self) ==
    /\ procs[self].pc = "idle"
    /\ procs'[self].pc \in {"s_open", "s_done"}
    /\ procs'[self].op = "verify"

(* C17: once logout(token) has completed, no verify(token) that starts     *)
(* afterwards returns a user id, whatever logins, logouts and verifies of  *)
(* other tokens run in parallel: no writer restores the deleted session.   *)
C17_LogoutNotUndone ==
    [][\A a, b \in Procs :
          (/\ procs[a].pc = "s_done" /\ procs[a].op = "logout"
           /\ VerifyStart(b)
           /\ procs'[b].token = procs[a].token)
          => procs'[b].ret = None]_vars

(* Some call of logout(token) has started *)
LogoutCalled(token) ==
    \E o \in Procs : /\ procs[o].pc \in {"s_open", "s_dump", "s_done"}
                     /\ procs[o].op = "logout"
                     /\ procs[o].token = token

(* C18: the token of a completed successful login stays valid (verify      *)
(* returns its user id) until it is logged out or its expires_at passes,   *)
(* whatever other logins, logouts and evictions run in parallel. Stated    *)
(* for the states in which sessions.json holds a complete document.        *)
C18_SessionNotLost ==
    \A self \in Procs :
        (/\ procs[self].pc = "s_done" /\ procs[self].op = "login"
         /\ procs[self].ret # None
         /\ sessions_file.kind = "json"
         /\ ~ LogoutCalled(procs[self].token)
         /\ ~ Expired(clock, fromisoformat(
                  procs[self].sessions[procs[self].token].expires_at)))
        => verify_token_result(StoredSessions, procs[self].token, clock).ret
              = procs[self].ret

(* C19: lazy eviction. A verify that finds a session with now > expires_at *)
(* returns nothing and deletes exactly that session: the token is no       *)
(* longer stored and all other sessions are unchanged. A verify never      *)
(* deletes a session with now <= expires_at (it writes nothing then).      *)
C19_LazyEviction ==
    [][VerifyCall =>
          IF /\ last'.token \in DOMAIN StoredSessions
             /\ clock > fromisoformat(StoredSessions[last'.token].expires_at)
          THEN /\ last'.user_id = None
               /\ DOMAIN StoredSessions' = DOMAIN StoredSessions \ {last'.token}
               /\ \A t \in DOMAIN StoredSessions' :
                     StoredSessions'[t] = StoredSessions[t]
          ELSE sessions_file' = sessions_file]_vars

C19_Witness ==
    /\ last.op = "verify" /\ last.user_id = None
    /\ last.token \in issued
    /\ last.token \notin DOMAIN StoredSessions
    /\ \E t \in DOMAIN StoredSessions :
          clock > fromisoformat(StoredSessions[t].expires_at)

(* C20: a session is never updated in place: from the step that stores it  *)
(* to the step that deletes it, its user_id, created_at and expires_at     *)
(* stay the same; a successful verify leaves the sessions collection as it *)
(* is and does not extend expires_at.                                      *)
C20_SessionsNeverUpdated ==
    [][/\ \A t \in DOMAIN StoredSessions \cap DOMAIN StoredSessions' :
             StoredSessions'[t] = StoredSessions[t]
       /\ (VerifyCall /\ last'.user_id # None)
             => sessions_file' = sessions_file]_vars

C20_Witness ==
    /\ last.op = "verify" /\ last.user_id # None
    /\ last.token \in DOMAIN StoredSessions
    /\ clock > fromisoformat(StoredSessions[last.token].created_at)
    /\ Cardinality(DOMAIN StoredSessions) = 2

(* C21: MongoDB.connect never raises. When the client cannot be made or   *)
(* the ping fails, with whatever exception, it returns False and           *)
(* is_connected is False; it returns True only after a ping that           *)
(* succeeded; after every call is_connected equals the returned value.     *)
C21_ConnectNeverRaises ==
    outcome.call = "connect"
    => /\ outcome.raised = None
       /\ mongodb.is_connected = outcome.value
       /\ (outcome.failed \cap {"MongoClient", "ping"} # {}) => ~ outcome.value
       /\ outcome.value => "ping" \in outcome.attempted \ outcome.failed

C21_Witness ==
    /\ outcome.call = "connect" /\ outcome.failed = {"ping"}
    /\ ~ outcome.value /\ ~ mongodb.is_connected
    /\ mongodb.db # None

(* The calls _create_indexes makes *)
IndexCalls == UsersIndexCalls \cup Range(IndexChain) \cup ConversationCalls

(* C22: index-maintenance failures never prevent startup: when a creation, *)
(* the inspection or a drop of an index inside _create_indexes fails,      *)
(* connect still returns True, is_connected is True, and nothing is        *)
(* raised to the caller of connect.                                        *)
C22_IndexFailuresDoNotStopStartup ==
    (outcome.call = "connect" /\ outcome.failed \cap IndexCalls # {})
    => /\ outcome.value
       /\ mongodb.is_connected
       /\ outcome.raised = None

C22_Witness ==
    /\ outcome.call = "connect" /\ outcome.failed = {"drop_index", "user_id"}
    /\ outcome.value /\ mongodb.is_connected

(* The index is a unique index on email alone, neither partial nor sparse *)
PlainUniqueEmail(index) ==
    /\ index.key = <<"email">> /\ index.unique
    /\ ~ index.partial /\ ~ index.sparse

(* The step is a connect whose ping succeeded *)
ConnectedStep ==
    outcome'.call = "connect" /\ "ping" \in outcome'.attempted \ outcome'.failed

(* C23: _create_indexes inspects the existing index on email: one that is  *)
(* unique and neither partial nor sparse is dropped and the partial unique *)
(* index is created in its place (when the calls for it do not fail), and  *)
(* an existing index is dropped only in that case.                         *)
C23_OnlyPlainUniqueEmailReplaced ==
    [][ConnectedStep =>
          \A i \in DOMAIN indexes :
             /\ (/\ PlainUniqueEmail(indexes[i])
                 /\ outcome'.failed \cap UsersIndexCalls = {})
                => /\ indexes[i] \notin Range(indexes')
                   /\ email_partial \in Range(indexes')
             /\ indexes[i] \notin Range(indexes')
                => PlainUniqueEmail(indexes[i])]_vars

(* C24: after _create_indexes the unique constraint on email is the        *)
(* partial index or absent, never a plain sparse unique index.             *)
C24_NoSparseUniqueEmail ==
    (outcome.call = "connect" /\ outcome.value)
    => \A i \in DOMAIN indexes :
          (indexes[i].key = <<"email">> /\ indexes[i].unique)
          => ~ (indexes[i].sparse /\ ~ indexes[i].partial)

(* The create_index calls for the sessions and chat_logs collections *)
SessionsAndChatCalls == Range(IndexChain) \ {"user_id"}

(* C25: after connect has returned True, the creation of every sessions    *)
(* index and every chat_logs index has been attempted, also when the       *)
(* creation of an earlier index (username, email, user_id) failed.         *)
C25_LaterIndexesAttempted ==
    (/\ outcome.call = "connect" /\ outcome.value
     /\ outcome.failed \subseteq UsersIndexCalls)
    => SessionsAndChatCalls \subseteq outcome.attempted

(* C26: get_collection raises RuntimeError in every state in which the     *)
(* object is not connected and returns the handle only when is_connected   *)
(* is True; and is_connected = True implies that client and db are set.    *)
C26_CollectionOnlyWhenConnected ==
    /\ outcome.call = "get_collection"
       => IF mongodb.is_connected
          THEN outcome.raised = None /\ outcome.value[1] = mongodb.db
          ELSE outcome.raised = "RuntimeError"
    /\ mongodb.is_connected => (mongodb.client # None /\ mongodb.db # None)

C26_Witness ==
    /\ outcome.call = "get_collection" /\ outcome.raised = "RuntimeError"
    /\ ~ mongodb.is_connected
    /\ mongodb.db # None

(* C27: check_connection is read-only and total: it never raises and never *)
(* changes is_connected, client or db, also when its ping fails; it        *)
(* reports connected = False whenever is_connected is False; and a result  *)
(* with connected = True has the database name, a size and the document    *)
(* counts of exactly users, sessions and chat_logs.                        *)
C27_CheckConnectionReadOnly ==
    [][outcome'.call = "check_connection"
       => /\ mongodb' = mongodb
          /\ outcome'.raised = None
          /\ ~ mongodb.is_connected => ~ outcome'.value.connected
          /\ outcome'.value.connected
             => /\ outcome'.value.database = DATABASE_NAME
                /\ "database_size" \in DOMAIN outcome'.value
                /\ DOMAIN outcome'.value.document_counts
                      = {"users", "sessions", "chat_logs"}]_vars

C27_Witness ==
    /\ outcome.call = "check_connection" /\ "ping" \in outcome.failed
    /\ ~ outcome.value.connected
    /\ mongodb.is_connected

(* Some stored user has this username, in any letter case, and this password *)
Matching(username, password) ==
    \E id \in DOMAIN StoredUsers :
        /\ lower(StoredUsers[id].username) = lower(username)
        /\ StoredUsers[id].password_hash = hash_password(password)

(* C28: a failed login (unknown username or wrong password) creates no     *)
(* session and leaves the sessions and the users collections unchanged; a  *)
(* session comes into the store only by a login with the username and the  *)
(* correct password of the user it names.                                  *)
C28_FailedLoginCreatesNothing ==
    [][/\ (LoginCall /\ ~ Matching(last'.username, last'.password))
          => /\ last'.status # 200
             /\ sessions_file' = sessions_file
             /\ users_file' = users_file
       /\ \A t \in DOMAIN StoredSessions' \ DOMAIN StoredSessions :
             /\ last'.op = "login" /\ last'.token = t
             /\ \E id \in DOMAIN StoredUsers :
                   /\ lower(StoredUsers[id].username) = lower(last'.username)
                   /\ StoredUsers[id].password_hash = hash_password(last'.password)
                   /\ StoredSessions'[t].user_id = id]_vars

C28_Witness ==
    /\ last.op = "login" /\ last.status = HTTP_401_UNAUTHORIZED
    /\ last.password = wrong
    /\ SameNameStored(last.username)
    /\ StoredSessions # EmptyDict

(* C29: sessions are independent: a successful login leaves every earlier  *)
(* session in the store, unchanged and as valid as before; a logout or an  *)
(* eviction by verify removes no session but the one of its token.         *)
C29_SessionsIndependent ==
    [][/\ (LoginCall /\ last'.status = 200)
          => \A t \in DOMAIN StoredSessions :
                /\ t \in DOMAIN StoredSessions'
                /\ StoredSessions'[t] = StoredSessions[t]
                /\ verify_token_result(StoredSessions', t, clock').ret
                      = verify_token_result(StoredSessions, t, clock).ret
       /\ (LogoutCall \/ VerifyCall)
          => \A t \in DOMAIN StoredSessions \ {last'.token} :
                /\ t \in DOMAIN StoredSessions'
                /\ StoredSessions'[t] = StoredSessions[t]]_vars

C29_Witness ==
    /\ last.op = "logout"
    /\ last.token \in issued \ DOMAIN StoredSessions
    /\ Cardinality(DOMAIN StoredUsers) = 1
    /\ StoredSessions # EmptyDict

====
